---- MODULE Spec2Model ----
(***************************************************************************)
(* Model of src/main.py, the moth lights controller (MicroPython, Pico).   *)
(*                                                                         *)
(* The program is one straight-line script: a startup loop that switches   *)
(* every LED off, then an endless try/except loop that reads the RTC,      *)
(* recomputes the per-cage day state when the global day changed, and      *)
(* advances every cage's blink state by one tick.  The model follows the   *)
(* script statement by statement where a claim is about an intermediate    *)
(* state (single pin writes, the two assignments of a day change) and      *)
(* where an exception can leave the try block.                             *)
(***************************************************************************)
EXTENDS Integers, Sequences, FiniteSets, TLC

\* What surrounds the script in one run: the dates the RTC may show, how long
\* the run is followed, how many exceptions are raised, and the value the
\* CONFIG block gives CYCLE_LENGTH_DAYS.
VARIABLE env

(***************************************************************************)
(* CONFIG (main.py 10-31, 60-61)                                           *)
(***************************************************************************)
CYCLE_LENGTH_DAYS == 24

\* The value of CYCLE_LENGTH_DAYS in the running script: CYCLE_LENGTH_DAYS
\* itself, or another value when the CONFIG block has been edited.
cycle_length_days == env.cycle

\* Variant: the fourth cage starts two days early.
CAGE_OFFSETS_early_fourth == (1 :> 0) @@ (2 :> 6) @@ (3 :> 12) @@ (4 :> 16)

CAGE_OFFSETS == (1 :> 0) @@ (2 :> 6) @@ (3 :> 12) @@ (4 :> 18)

REFERENCE_YEAR == 2025
REFERENCE_MONTH == 12
REFERENCE_DAY == 3
REFERENCE_GLOBAL_DAY == 13

LED_ON == 1
LED_OFF == 0

\* Keys of CAGES and of each cage's pin dict, in the order the dict literals
\* list them; the loops over CAGES, cage.values() and cage_runtime.items()
\* visit them in this order.
CageOrder == <<1, 2, 3, 4>>
PinOrder == <<"R", "Y", "G">>
Cages == {CageOrder[i] : i \in 1..Len(CageOrder)}
PinNames == {PinOrder[i] : i \in 1..Len(PinOrder)}

\* The three color strings the program produces, and a string that is none
\* of them (the else branch of set_cage_color).
Colors == {"red", "yellow", "green"}
UnknownColor == "blue"

(***************************************************************************)
(* Bounds of the model                                                     *)
(***************************************************************************)
\* Loop iterations explored after a recomputation before the clock has to
\* show another day, in the specification with failures.
MaxTicks == 13
\* The same in the specification of one undisturbed day.
MaxDayTicks == 53
\* Failures (raised exceptions) explored in one run.
MaxFailures == 1
\* Calendar dates enumerated from CalendarStart on.
CalendarDays == 760
\* Calendar index (1-based) of the first of the CYCLE_LENGTH_DAYS dates of
\* the one-day specification, and of the first date of the faulty one.
DayFirst == 633
LoopFirst == 645
\* Number of consecutive dates the RTC may show in the faulty specification.
LoopDates == 3
\* The same two bounds for the runs with an edited CONFIG block.
BadFirst == 650
MaxBadTicks == 3

(***************************************************************************)
(* Python / MicroPython primitives                                         *)
(***************************************************************************)
\* C-style remainder (sign of the dividend), the result a % b would have in
\* a language that truncates.
TruncMod(a, b) == IF a >= 0 THEN a % b ELSE 0 - ((0 - a) % b)

\* Python's a % b for b > 0: the result has the sign of the divisor.
PyMod(a, b) == a % b

\* Integer division rounding toward zero.
TruncDiv(a, b) == IF a >= 0 THEN a \div b ELSE 0 - ((0 - a) \div b)

\* Python's a // b for b > 0: floor division.
PyFloorDiv(a, b) == a \div b

IsLeapYear(y) == (y % 4 = 0 /\ y % 100 # 0) \/ y % 400 = 0

DaysInMonth(y, m) ==
    IF m = 2 THEN (IF IsLeapYear(y) THEN 29 ELSE 28)
    ELSE IF m \in {4, 6, 9, 11} THEN 30 ELSE 31

RECURSIVE DaysBeforeMonth(_, _)
DaysBeforeMonth(y, m) ==
    IF m <= 1 THEN 0 ELSE DaysBeforeMonth(y, m - 1) + DaysInMonth(y, m - 1)

\* Days from 2000-01-01 to January 1st of year y (y >= 2000).
DaysBeforeYear(y) ==
    (y - 2000) * 365 + ((y - 2000 + 3) \div 4) - ((y - 2000 + 99) \div 100)
        + ((y - 2000 + 399) \div 400)

\* time.mktime of MicroPython: the inverse of time.localtime, plain calendar
\* arithmetic on the tuple (year, month, mday, hour, minute, second, ...)
\* with no time zone and no DST; seconds since 2000-01-01 00:00:00.
mktime(t) ==
    (DaysBeforeYear(t[1]) + DaysBeforeMonth(t[1], t[2]) + (t[3] - 1)) * 86400
        + t[4] * 3600 + t[5] * 60 + t[6]

(***************************************************************************)
(* Clock readings (time.localtime() results) fed to the program            *)
(***************************************************************************)
CalendarStart == <<2024, 2, 27>>

\* Every date of the years around the reference date (2024 is a leap year).
CalendarYears == {2024, 2025, 2026}

ValidDates ==
    {<<y, m, d>> : y \in CalendarYears, m \in 1..12, d \in 1..31} \ 
        {x \in {<<y, m, d>> : y \in CalendarYears, m \in 1..12, d \in 29..31} :
            x[3] > DaysInMonth(x[1], x[2])}

\* Date a lies before date b.
Earlier(a, b) ==
    \/ a[1] < b[1]
    \/ a[1] = b[1] /\ a[2] < b[2]
    \/ a[1] = b[1] /\ a[2] = b[2] /\ a[3] < b[3]

\* The number of dates before each date, counted one by one.
DayNumber == [x \in ValidDates |-> Cardinality({y \in ValidDates : Earlier(y, x)})]

\* 1-based position of a date in the calendar that begins at CalendarStart.
CalendarIndex(d) == DayNumber[d] - DayNumber[CalendarStart] + 1

TimesOfDay == {<<0, 0, 0>>, <<1, 59, 59>>, <<3, 0, 0>>, <<12, 0, 0>>, <<23, 59, 59>>}

Reading(d, t) == <<d[1], d[2], d[3], t[1], t[2], t[3]>>
DateOf(r) == <<r[1], r[2], r[3]>>

ReadingsOn(dates) == {Reading(d, t) : d \in dates, t \in TimesOfDay}

DatesAt(first, n) == {x \in ValidDates : CalendarIndex(x) \in first..(first + n - 1)}

AllDates == DatesAt(1, CalendarDays)
DayDates == DatesAt(DayFirst, CYCLE_LENGTH_DAYS)
FaultyDates == DatesAt(LoopFirst, LoopDates)
BadConfigDates == DatesAt(BadFirst, LoopDates)

\* Values of CYCLE_LENGTH_DAYS that are not a valid configuration: not
\* positive, or not the length of the blink table and of the color ranges.
BadCycleLengths == {0, 30}

(***************************************************************************)
(* The pure functions of main.py                                           *)
(***************************************************************************)
\* Variant: the yellow range ends one day early.
color_for_cage_day_off_by_one(cage_day) ==
    IF 0 <= cage_day /\ cage_day <= 5 THEN "green"
    ELSE IF 6 <= cage_day /\ cage_day < 19 THEN "yellow"
    ELSE "red"

color_for_cage_day(cage_day) ==
    IF 0 <= cage_day /\ cage_day <= 5 THEN "green"
    ELSE IF 6 <= cage_day /\ cage_day <= 19 THEN "yellow"
    ELSE "red"

blink_table ==
    <<1, 2, 3, 4, 4, 4, 6, 6, 6, 8, 8, 8, 8, 8, 6, 6, 4, 4, 4, 4, 0, 0, 0, 0>>

\* A Python list index: 0-based, a negative index counts from the end.
list_item(list, i) == IF i >= 0 THEN list[i + 1] ELSE list[Len(list) + i + 1]

\* Variant: the table's zeros begin one day early.
blink_count_for_cage_day_short_table(cage_day) ==
    IF cage_day >= 19 THEN 0 ELSE list_item(blink_table, cage_day)

\* return blink_table[cage_day]
blink_count_for_cage_day(cage_day) == list_item(blink_table, cage_day)

ref_tuple == <<REFERENCE_YEAR, REFERENCE_MONTH, REFERENCE_DAY, 0, 0, 0>>

\* Variant: the difference is rounded to the nearest day instead of floored.
days_since_reference_rounded(now) ==
    PyFloorDiv(mktime(now) - mktime(ref_tuple) + 43200, 24 * 60 * 60)

days_since_reference(now) ==
    PyFloorDiv(mktime(now) - mktime(ref_tuple), 24 * 60 * 60)

\* Variant: division and remainder that truncate toward zero.
current_global_day_truncating(now) ==
    TruncMod(REFERENCE_GLOBAL_DAY + TruncDiv(mktime(now) - mktime(ref_tuple), 24 * 60 * 60),
             cycle_length_days)

\* Variant: the anchor is off by one day.
current_global_day_wrong_anchor(now) ==
    PyMod(REFERENCE_GLOBAL_DAY - 1 + days_since_reference(now), cycle_length_days)

current_global_day(now) ==
    PyMod(REFERENCE_GLOBAL_DAY + days_since_reference(now), cycle_length_days)

\* Variant: a remainder that keeps the sign of the difference.
cage_day_of_truncating(global_day, offset) ==
    TruncMod(global_day - offset, cycle_length_days)

\* cage_day = (global_day - offset) % CYCLE_LENGTH_DAYS
cage_day_of(global_day, offset) == PyMod(global_day - offset, cycle_length_days)

\* Variant: a blinking cage starts its day in the gap of a pulse.
runtime_state_starts_dark(global_day, offset) ==
    LET cage_day == cage_day_of(global_day, offset)
        blinks == blink_count_for_cage_day(cage_day)
    IN  [color |-> color_for_cage_day(cage_day),
         blinks |-> blinks,
         cage_day |-> cage_day,
         phase |-> IF blinks = 0 THEN "solid_only" ELSE "blink_off",
         timer |-> 0,
         blink_index |-> 0]

runtime_state(global_day, offset) ==
    LET cage_day == cage_day_of(global_day, offset)
        blinks == blink_count_for_cage_day(cage_day)
    IN  [color |-> color_for_cage_day(cage_day),
         blinks |-> blinks,
         cage_day |-> cage_day,
         phase |-> IF blinks = 0 THEN "solid_only" ELSE "solid_gap",
         timer |-> 0,
         blink_index |-> 0]

\* Which helper one cage's branch of apply_blink_logic_one_tick calls.
tick_call(cage_num, state) ==
    IF state.blinks = 0 \/ state.phase \in {"solid_gap", "blink_on"}
    THEN [fn |-> "set_cage_color", cage_num |-> cage_num, color |-> state.color]
    ELSE [fn |-> "set_cage_off", cage_num |-> cage_num, color |-> "none"]

\* Variant: the end of a burst leaves blink_index where it was.
tick_state_keeps_index(state) ==
    IF state.blinks = 0 THEN state
    ELSE IF state.phase = "solid_gap" THEN
        IF state.timer + 1 >= 10
        THEN [state EXCEPT !.phase = "blink_on", !.timer = 0, !.blink_index = 0]
        ELSE [state EXCEPT !.timer = state.timer + 1]
    ELSE IF state.phase = "blink_on" THEN [state EXCEPT !.phase = "blink_off", !.timer = 0]
    ELSE IF state.blink_index + 1 >= state.blinks
        THEN [state EXCEPT !.phase = "solid_gap", !.timer = 0]
        ELSE [state EXCEPT !.phase = "blink_on", !.timer = 0,
                           !.blink_index = state.blink_index + 1]

\* Variant: the solid gap ends one tick late (> instead of >=).
tick_state_late_gap(state) ==
    IF state.blinks = 0 THEN state
    ELSE IF state.phase = "solid_gap" THEN
        IF state.timer + 1 > 10
        THEN [state EXCEPT !.phase = "blink_on", !.timer = 0, !.blink_index = 0]
        ELSE [state EXCEPT !.timer = state.timer + 1]
    ELSE IF state.phase = "blink_on" THEN [state EXCEPT !.phase = "blink_off", !.timer = 0]
    ELSE IF state.blink_index + 1 >= state.blinks
        THEN [state EXCEPT !.phase = "solid_gap", !.timer = 0, !.blink_index = 0]
        ELSE [state EXCEPT !.phase = "blink_on", !.timer = 0,
                           !.blink_index = state.blink_index + 1]

\* Variant: the timer also runs for a cage that does not blink.
tick_state_counts_solid(state) ==
    IF state.blinks = 0 THEN [state EXCEPT !.timer = state.timer + 1]
    ELSE IF state.phase = "solid_gap" THEN
        IF state.timer + 1 >= 10
        THEN [state EXCEPT !.phase = "blink_on", !.timer = 0, !.blink_index = 0]
        ELSE [state EXCEPT !.timer = state.timer + 1]
    ELSE IF state.phase = "blink_on" THEN [state EXCEPT !.phase = "blink_off", !.timer = 0]
    ELSE IF state.blink_index + 1 >= state.blinks
        THEN [state EXCEPT !.phase = "solid_gap", !.timer = 0, !.blink_index = 0]
        ELSE [state EXCEPT !.phase = "blink_on", !.timer = 0,
                           !.blink_index = state.blink_index + 1]

\* The assignments one cage's branch of apply_blink_logic_one_tick makes to
\* its state dict after the helper call returned.
tick_state(state) ==
    IF state.blinks = 0 THEN state
    ELSE IF state.phase = "solid_gap" THEN
        IF state.timer + 1 >= 10
        THEN [state EXCEPT !.phase = "blink_on", !.timer = 0, !.blink_index = 0]
        ELSE [state EXCEPT !.timer = state.timer + 1]
    ELSE IF state.phase = "blink_on" THEN
        IF state.timer + 1 >= 1
        THEN [state EXCEPT !.phase = "blink_off", !.timer = 0]
        ELSE [state EXCEPT !.timer = state.timer + 1]
    ELSE IF state.phase = "blink_off" THEN
        IF state.timer + 1 >= 1
        THEN IF state.blink_index + 1 >= state.blinks
             THEN [state EXCEPT !.phase = "solid_gap", !.timer = 0, !.blink_index = 0]
             ELSE [state EXCEPT !.phase = "blink_on", !.timer = 0,
                                !.blink_index = state.blink_index + 1]
        ELSE [state EXCEPT !.timer = state.timer + 1]
    ELSE state

\* The pin a recognised color switches on; "" for any other string.
color_pin(color) ==
    IF color = "red" THEN "R"
    ELSE IF color = "yellow" THEN "Y"
    ELSE IF color = "green" THEN "G"
    ELSE ""

(***************************************************************************)
(* State                                                                   *)
(***************************************************************************)
VARIABLES
    pins,             \* value of every output pin: CAGES[c][p].value()
    last_global_day,  \* module variable last_global_day (None or 0..23)
    cage_runtime,     \* module variable cage_runtime (None or the dict)
    gday,             \* module variable gday of the loop body
    now,              \* the time.localtime() tuple being converted
    pc,               \* position of the script
    cage_i,           \* index in CageOrder of the cage a loop is at
    pin_i,            \* index in PinOrder of the next pin write of a helper
    call,             \* the set_cage_color / set_cage_off call in progress
    entry_pins,       \* the called cage's pins when the call began
    ticked,           \* per cage: completed ticks since cage_runtime was built
    iter_start,       \* ticked as it was when the running iteration began
    failures          \* exceptions raised so far

vars == <<pins, last_global_day, cage_runtime, gday, now, pc, cage_i, pin_i,
          call, entry_pins, ticked, iter_start, failures, env>>

None == -1
NoRuntime == << >>
NoClock == << >>
NoCall == [fn |-> "none", cage_num |-> 0, color |-> "none"]
NoPins == << >>

\* blink_table[cage_day] raises IndexError for some cage
compute_raises(global_day) ==
    \E cage_num \in DOMAIN CAGE_OFFSETS :
        cage_day_of(global_day, CAGE_OFFSETS[cage_num])
            \notin (0 - Len(blink_table))..(Len(blink_table) - 1)

\* Variant: an existing dict is updated in place and keeps its phase, timer
\* and blink_index.
compute_cage_runtime_in_place(global_day) ==
    [cage_num \in DOMAIN CAGE_OFFSETS |->
        LET fresh == runtime_state(global_day, CAGE_OFFSETS[cage_num])
        IN  IF cage_runtime = << >> THEN fresh
            ELSE [fresh EXCEPT !.phase = cage_runtime[cage_num].phase,
                               !.timer = cage_runtime[cage_num].timer,
                               !.blink_index = cage_runtime[cage_num].blink_index]]

compute_cage_runtime_for_global_day(global_day) ==
    [cage_num \in DOMAIN CAGE_OFFSETS |-> runtime_state(global_day, CAGE_OFFSETS[cage_num])]

AllOff == [p \in PinNames |-> LED_OFF]

\* The script before its first statement after the CAGES literal: the pins
\* are freshly configured outputs of a chip out of reset (all low).
ProgramStart ==
    /\ pins = [c \in Cages |-> AllOff]
    /\ last_global_day = None
    /\ cage_runtime = NoRuntime
    /\ gday = None
    /\ now = NoClock
    /\ cage_i = 1
    /\ pin_i = 1
    /\ call = NoCall
    /\ entry_pins = NoPins
    /\ ticked = [c \in Cages |-> 0]
    /\ iter_start = [c \in Cages |-> 0]
    /\ failures = 0

\* The RTC may show any of a few dates around the reference date at every
\* read, and exceptions may be raised.
Init ==
    /\ ProgramStart
    /\ pc = "startup"
    /\ env = [dates |-> FaultyDates, maxTicks |-> MaxTicks, maxFails |-> MaxFailures,
             cycle |-> CYCLE_LENGTH_DAYS]

\* One calendar date for the whole run, any of CYCLE_LENGTH_DAYS consecutive
\* ones, and no exception.
InitDay ==
    /\ ProgramStart
    /\ pc = "startup"
    /\ \E d \in DayDates :
          env = [dates |-> {d}, maxTicks |-> MaxDayTicks, maxFails |-> 0,
                 cycle |-> CYCLE_LENGTH_DAYS]

\* The script with an invalid CYCLE_LENGTH_DAYS in its CONFIG block.
InitBadConfig ==
    /\ ProgramStart
    /\ pc = "startup"
    /\ \E n \in BadCycleLengths :
          env = [dates |-> BadConfigDates, maxTicks |-> MaxBadTicks, maxFails |-> 0,
                 cycle |-> n]

\* The date functions applied to every enumerated clock reading.
InitClock ==
    /\ ProgramStart
    /\ pc = "fn_clock"
    /\ env = [dates |-> AllDates, maxTicks |-> 0, maxFails |-> 0,
                 cycle |-> CYCLE_LENGTH_DAYS]

\* The two output helpers called with every argument.
InitSink ==
    /\ ProgramStart
    /\ pc = "fn_sink"
    /\ env = [dates |-> {}, maxTicks |-> 0, maxFails |-> 0,
                 cycle |-> CYCLE_LENGTH_DAYS]

(***************************************************************************)
(* Startup: main.py 273-279                                                *)
(***************************************************************************)
StartupPinOff ==
    /\ pc = "startup"
    /\ pins' = [pins EXCEPT ![CageOrder[cage_i]][PinOrder[pin_i]] = LED_OFF]
    /\ IF pin_i < Len(PinOrder)
       THEN /\ pin_i' = pin_i + 1
            /\ UNCHANGED <<cage_i, pc>>
       ELSE IF cage_i < Len(CageOrder)
       THEN /\ cage_i' = cage_i + 1
            /\ pin_i' = 1
            /\ UNCHANGED pc
       ELSE /\ cage_i' = 0
            /\ pin_i' = 0
            /\ pc' = "loop"
    /\ UNCHANGED <<last_global_day, cage_runtime, gday, now, call, entry_pins,
                   ticked, iter_start, failures, env>>

(***************************************************************************)
(* Output helpers: main.py 67-89, one pin write per step                   *)
(***************************************************************************)
\* Variant: the clear loop writes the pin of every cage.
pins_after_clear_every_cage(p, cage_num, i) ==
    [c \in DOMAIN p |-> [p[c] EXCEPT ![PinOrder[i]] = LED_OFF]]

\* Variant: the clear loop skips the yellow pin.
pins_after_clear_keeps_yellow(p, cage_num, i) ==
    IF PinOrder[i] = "Y" THEN p ELSE [p EXCEPT ![cage_num][PinOrder[i]] = LED_OFF]

\* pin.value(LED_OFF) for the i-th pin of cage.values()
pins_after_clear(p, cage_num, i) == [p EXCEPT ![cage_num][PinOrder[i]] = LED_OFF]

\* the if/elif chain of set_cage_color
pins_after_select(p, cage_num, color) ==
    IF color_pin(color) = "" THEN p
    ELSE [p EXCEPT ![cage_num][color_pin(color)] = LED_ON]

\* for pin in cage.values(): pin.value(LED_OFF)   (both helpers)
SinkClear ==
    /\ call # NoCall
    /\ pin_i \in 1..Len(PinOrder)
    /\ pins' = pins_after_clear(pins, call.cage_num, pin_i)
    /\ IF call.fn = "set_cage_off" /\ pin_i = Len(PinOrder)
       THEN /\ call' = NoCall
            /\ pin_i' = 0
            /\ entry_pins' = NoPins
       ELSE /\ pin_i' = pin_i + 1
            /\ UNCHANGED <<call, entry_pins>>
    /\ UNCHANGED <<last_global_day, cage_runtime, gday, now, pc, cage_i, ticked, iter_start,
                   failures, env>>

\* if color == "red": ... elif ... else: print("Unknown color ...")
SinkSelect ==
    /\ call # NoCall
    /\ call.fn = "set_cage_color"
    /\ pin_i = Len(PinOrder) + 1
    /\ pins' = pins_after_select(pins, call.cage_num, call.color)
    /\ call' = NoCall
    /\ pin_i' = 0
    /\ entry_pins' = NoPins
    /\ UNCHANGED <<last_global_day, cage_runtime, gday, now, pc, cage_i, ticked, iter_start,
                   failures, env>>

(***************************************************************************)
(* Main loop: main.py 281-299                                              *)
(***************************************************************************)
\* gday = current_global_day()
ReadClock ==
    /\ pc = "loop"
    /\ cycle_length_days # 0
    /\ \E t \in ReadingsOn(env.dates) :
          /\ now' = t
          /\ gday' = current_global_day(t)
    /\ pc' = "check"
    /\ UNCHANGED <<pins, last_global_day, cage_runtime, cage_i, pin_i, call,
                   entry_pins, ticked, iter_start, failures, env>>

\* (REFERENCE_GLOBAL_DAY + d) % CYCLE_LENGTH_DAYS raises ZeroDivisionError
ReadClockRaises ==
    /\ pc = "loop"
    /\ cycle_length_days = 0
    /\ pc' = "except"
    /\ UNCHANGED <<pins, last_global_day, cage_runtime, gday, now, cage_i, pin_i,
                   call, entry_pins, ticked, iter_start, failures, env>>

\* current_global_day() raises
FailClock ==
    /\ pc = "loop"
    /\ failures < env.maxFails
    /\ failures' = failures + 1
    /\ pc' = "except"
    /\ UNCHANGED <<pins, last_global_day, cage_runtime, gday, now, cage_i, pin_i,
                   call, entry_pins, ticked, iter_start, env>>

\* Variant: the day state is rebuilt in every iteration.
day_changed_always == TRUE

day_changed == gday # last_global_day \/ cage_runtime = NoRuntime

\* if gday != last_global_day or cage_runtime is None: last_global_day = gday
DayChanged ==
    /\ pc = "check"
    /\ day_changed
    /\ last_global_day' = gday
    /\ now' = NoClock
    /\ pc' = "compute"
    /\ UNCHANGED <<pins, cage_runtime, gday, cage_i, pin_i, call, entry_pins,
                   ticked, iter_start, failures, env>>

\* the condition is false: straight to apply_blink_logic_one_tick
DayUnchanged ==
    /\ pc = "check"
    /\ ~day_changed
    /\ ticked[CageOrder[1]] < env.maxTicks
    /\ now' = NoClock
    /\ pc' = "tick"
    /\ cage_i' = 1
    /\ UNCHANGED <<pins, last_global_day, cage_runtime, gday, pin_i, call,
                   entry_pins, ticked, iter_start, failures, env>>

\* cage_runtime = compute_cage_runtime_for_global_day(gday)
Compute ==
    /\ pc = "compute"
    /\ ~compute_raises(gday)
    /\ cage_runtime' = compute_cage_runtime_for_global_day(gday)
    /\ ticked' = [c \in Cages |-> 0]
    /\ iter_start' = [c \in Cages |-> 0]
    /\ pc' = "tick"
    /\ cage_i' = 1
    /\ UNCHANGED <<pins, last_global_day, gday, now, pin_i, call, entry_pins,
                   failures, env>>

\* compute_cage_runtime_for_global_day raises IndexError
ComputeRaises ==
    /\ pc = "compute"
    /\ compute_raises(gday)
    /\ pc' = "except"
    /\ UNCHANGED <<pins, last_global_day, cage_runtime, gday, now, cage_i, pin_i,
                   call, entry_pins, ticked, iter_start, failures, env>>

\* compute_cage_runtime_for_global_day raises before it returns
FailCompute ==
    /\ pc = "compute"
    /\ failures < env.maxFails
    /\ failures' = failures + 1
    /\ pc' = "except"
    /\ UNCHANGED <<pins, last_global_day, cage_runtime, gday, now, cage_i, pin_i,
                   call, entry_pins, ticked, iter_start, env>>

\* Variant: the loop passes over the second cage.
next_cage_skips(i) == IF i = 1 THEN 3 ELSE i + 1

\* for cage_num, state in cage_runtime.items(): the position after position i
next_cage(i) == i + 1

\* apply_blink_logic_one_tick, one cage: the helper call of its branch
TickCall ==
    /\ pc = "tick"
    /\ call = NoCall
    /\ call' = tick_call(CageOrder[cage_i], cage_runtime[CageOrder[cage_i]])
    /\ entry_pins' = pins[CageOrder[cage_i]]
    /\ pin_i' = 1
    /\ pc' = "update"
    /\ UNCHANGED <<pins, last_global_day, cage_runtime, gday, now, cage_i, ticked, iter_start,
                   failures, env>>

\* apply_blink_logic_one_tick, one cage: the state updates after the call,
\* then the next cage or, after the last one, the return to the loop body
TickUpdate ==
    /\ pc = "update"
    /\ call = NoCall
    /\ cage_runtime' = [cage_runtime EXCEPT ![CageOrder[cage_i]] = tick_state(@)]
    /\ ticked' = [ticked EXCEPT ![CageOrder[cage_i]] = @ + 1]
    /\ IF cage_i < Len(CageOrder)
       THEN /\ cage_i' = next_cage(cage_i)
            /\ pc' = "tick"
       ELSE /\ cage_i' = 0
            /\ pc' = "sleep"
    /\ UNCHANGED <<pins, last_global_day, gday, now, pin_i, call, entry_pins, iter_start,
                   failures, env>>

\* a pin write of the helper raises: the exception leaves the helper and
\* apply_blink_logic_one_tick
FailSink ==
    /\ pc = "update"
    /\ call # NoCall
    /\ failures < env.maxFails
    /\ failures' = failures + 1
    /\ call' = NoCall
    /\ entry_pins' = NoPins
    /\ pin_i' = 0
    /\ cage_i' = 0
    /\ pc' = "except"
    /\ UNCHANGED <<pins, last_global_day, cage_runtime, gday, now, ticked, iter_start, env>>

\* time.sleep(1)
Sleep ==
    /\ pc = "sleep"
    /\ pc' = "loop"
    /\ iter_start' = ticked
    /\ UNCHANGED <<pins, last_global_day, cage_runtime, gday, now, cage_i, pin_i,
                   call, entry_pins, ticked, failures, env>>

\* Variant: the exception ends the script.
except_resume_exits == "exit"

\* where control goes after the except clause: back into while True
except_resume == "loop"

\* except Exception as e: print(...); time.sleep(5)
Backoff ==
    /\ pc = "except"
    /\ pc' = except_resume
    /\ iter_start' = ticked
    /\ UNCHANGED <<pins, last_global_day, cage_runtime, gday, now, cage_i, pin_i,
                   call, entry_pins, ticked, failures, env>>

(***************************************************************************)
(* Drivers of the functions taken alone                                    *)
(***************************************************************************)
\* current_global_day() on one clock reading
FnGlobalDay ==
    /\ pc = "fn_clock"
    /\ \E t \in ReadingsOn(env.dates) :
          /\ now' = t
          /\ gday' = current_global_day(t)
    /\ pc' = "fn_day"
    /\ UNCHANGED <<pins, last_global_day, cage_runtime, cage_i, pin_i, call,
                   entry_pins, ticked, iter_start, failures, env>>

\* compute_cage_runtime_for_global_day(gday) on its result
FnRuntime ==
    /\ pc = "fn_day"
    /\ cage_runtime' = compute_cage_runtime_for_global_day(gday)
    /\ pc' = "fn_runtime"
    /\ UNCHANGED <<pins, last_global_day, gday, now, cage_i, pin_i, call,
                   entry_pins, ticked, iter_start, failures, env>>

\* set_cage_color(cage_num, color) with any string of interest
FnSetCageColor ==
    /\ pc = "fn_sink"
    /\ call = NoCall
    /\ \E c \in Cages, color \in Colors \cup {UnknownColor} :
          /\ call' = [fn |-> "set_cage_color", cage_num |-> c, color |-> color]
          /\ entry_pins' = pins[c]
    /\ pin_i' = 1
    /\ UNCHANGED <<pins, last_global_day, cage_runtime, gday, now, pc, cage_i,
                   ticked, iter_start, failures, env>>

\* set_cage_off(cage_num)
FnSetCageOff ==
    /\ pc = "fn_sink"
    /\ call = NoCall
    /\ \E c \in Cages :
          /\ call' = [fn |-> "set_cage_off", cage_num |-> c, color |-> "none"]
          /\ entry_pins' = pins[c]
    /\ pin_i' = 1
    /\ UNCHANGED <<pins, last_global_day, cage_runtime, gday, now, pc, cage_i,
                   ticked, iter_start, failures, env>>

(***************************************************************************)
(* Specifications                                                          *)
(***************************************************************************)
Next ==
    \/ StartupPinOff
    \/ ReadClock
    \/ FailClock
    \/ DayChanged
    \/ DayUnchanged
    \/ Compute
    \/ FailCompute
    \/ TickCall
    \/ SinkClear
    \/ SinkSelect
    \/ FailSink
    \/ TickUpdate
    \/ Sleep
    \/ Backoff

\* The program; the RTC shows any of a few dates, exceptions are raised.
Spec == Init /\ [][Next]_vars

\* The except clause runs to its end once entered.
FairSpec == Spec /\ WF_vars(Backoff)

NextDay ==
    \/ StartupPinOff
    \/ ReadClock
    \/ DayChanged
    \/ DayUnchanged
    \/ Compute
    \/ TickCall
    \/ SinkClear
    \/ SinkSelect
    \/ TickUpdate
    \/ Sleep

\* The program during one calendar date, nothing failing.
SpecDay == InitDay /\ [][NextDay]_vars

NextBadConfig ==
    \/ StartupPinOff
    \/ ReadClock
    \/ ReadClockRaises
    \/ DayChanged
    \/ DayUnchanged
    \/ Compute
    \/ ComputeRaises
    \/ TickCall
    \/ SinkClear
    \/ SinkSelect
    \/ TickUpdate
    \/ Sleep
    \/ Backoff

\* The script as it runs with an invalid configuration.
SpecBadConfig == InitBadConfig /\ [][NextBadConfig]_vars

NextClock == FnGlobalDay \/ FnRuntime

\* current_global_day and compute_cage_runtime_for_global_day on every
\* enumerated clock reading.
SpecClock == InitClock /\ [][NextClock]_vars

NextSink == FnSetCageColor \/ FnSetCageOff \/ SinkClear \/ SinkSelect

\* set_cage_color and set_cage_off on every argument, in any order.
SpecSink == InitSink /\ [][NextSink]_vars

(***************************************************************************)
(* Properties                                                              *)
(***************************************************************************)
OnPins(c) == {p \in PinNames : pins[c][p] = LED_ON}

\* The pins of a cage showing the color, and showing nothing.
Showing(color) == [p \in PinNames |-> IF p = color_pin(color) THEN LED_ON ELSE LED_OFF]

\* The helper call of the running iteration has returned for every cage.
AllTicked == pc \in {"sleep", "loop", "check"}

\* Closed form of a cage's blink state after k ticks with blink count n > 0:
\* 10 ticks of solid_gap, then n times blink_on, blink_off.
state_after(n, k) ==
    LET r == k % (10 + 2 * n)
    IN  IF r < 10 THEN [phase |-> "solid_gap", timer |-> r, blink_index |-> 0]
        ELSE IF (r - 10) % 2 = 0
        THEN [phase |-> "blink_on", timer |-> 0, blink_index |-> (r - 10) \div 2]
        ELSE [phase |-> "blink_off", timer |-> 0, blink_index |-> (r - 11) \div 2]

\* Closed form of what the k-th tick (k >= 1) emits.
lit_at(n, k) ==
    LET r == (k - 1) % (10 + 2 * n)
    IN  r < 10 \/ (r - 10) % 2 = 0

\* C1: with blink count N > 0 and an unchanged day, the state and the output
\* of a cage after k ticks are those of the cycle of 10 + 2N ticks: 10 solid
\* ticks, then N one-tick pulses each followed by a one-tick gap, and after
\* every full cycle the cage is in solid_gap with timer 0 and blink_index 0.
C1_BlinkCycle ==
    cage_runtime # NoRuntime =>
        \A c \in Cages :
            LET s == cage_runtime[c]
                k == ticked[c]
            IN  s.blinks > 0 =>
                  /\ [phase |-> s.phase, timer |-> s.timer, blink_index |-> s.blink_index]
                        = state_after(s.blinks, k)
                  /\ (k % (10 + 2 * s.blinks) = 0) =>
                        (s.phase = "solid_gap" /\ s.timer = 0 /\ s.blink_index = 0)
                  /\ (AllTicked /\ k >= 1) =>
                        pins[c] = IF lit_at(s.blinks, k) THEN Showing(s.color) ELSE AllOff

C1_Witness ==
    /\ cage_runtime # NoRuntime
    /\ pc = "sleep"
    /\ \E c \in Cages :
          /\ cage_runtime[c].blinks = 8
          /\ ticked[c] = 10 + 2 * 8
          /\ cage_runtime[c].phase = "solid_gap"
          /\ pins[c] = AllOff

\* C2: in every state, between any two pin writes too, every cage has at
\* most one of its three pins switched on.
C2_AtMostOnePinOn == \A c \in Cages : Cardinality(OnPins(c)) <= 1

C2_Witness ==
    /\ call # NoCall
    /\ call.fn = "set_cage_color"
    /\ pin_i = Len(PinOrder) + 1
    /\ \E p \in PinNames : p # color_pin(call.color) /\ entry_pins[p] = LED_ON
    /\ OnPins(call.cage_num) = {}

\* C3: every raised failure lands in the except clause, and from the except
\* clause the loop always gets back to the start of an iteration.
C3_LoopSurvivesFailure ==
    /\ [][failures' > failures => pc' = "except"]_vars
    /\ (pc = "except") ~> (pc = "loop")

C3_Witness == pc = "loop" /\ failures > 0 /\ cage_runtime # NoRuntime

\* C4: a set_cage_color call with a color that is not red, yellow or green
\* returns with every pin of the cage as it was when the call began.
C4_UnknownColorKeepsPins ==
    [][(call.fn = "set_cage_color" /\ call.color \notin Colors /\ call' = NoCall)
          => pins'[call.cage_num] = entry_pins]_vars

\* C5: current_global_day returns a value in 0..CYCLE_LENGTH_DAYS-1 for
\* every clock reading, those before the reference date included.
C5_GlobalDayInRange ==
    pc \in {"fn_day", "fn_runtime"} => gday \in 0..(CYCLE_LENGTH_DAYS - 1)

C5_Witness ==
    /\ pc = "fn_day"
    /\ mktime(now) < mktime(ref_tuple)
    /\ now[4] = 23

TheDate == CHOOSE d \in env.dates : TRUE
Midnight(d) == Reading(d, <<0, 0, 0>>)

\* C6: on one calendar date every evaluation of current_global_day, at any
\* time of day, returns what it returns at 00:00:00 of that date and what the
\* previous evaluation returned, so the day state is never recomputed and the
\* cages keep the colors and blink counts of that date.
C6_SameDateSameDay ==
    /\ pc = "check" =>
          /\ gday = current_global_day(Midnight(DateOf(now)))
          /\ last_global_day # None => gday = last_global_day
    /\ cage_runtime # NoRuntime =>
          \A c \in Cages :
              LET first == compute_cage_runtime_for_global_day(
                               current_global_day(Midnight(TheDate)))[c]
              IN  /\ cage_runtime[c].color = first.color
                  /\ cage_runtime[c].blinks = first.blinks

C6_Witness ==
    /\ pc = "check"
    /\ last_global_day # None
    /\ now[4] = 23
    /\ ticked[CageOrder[1]] > 0

\* Calendar days from the reference date to the date of the reading, counted
\* on the enumerated calendar.
ElapsedDays(r) ==
    CalendarIndex(DateOf(r))
        - CalendarIndex(<<REFERENCE_YEAR, REFERENCE_MONTH, REFERENCE_DAY>>)

\* C7: current_global_day is (REFERENCE_GLOBAL_DAY + E) mod CYCLE_LENGTH_DAYS
\* with E the calendar days from the reference date to the date of the
\* reading, whatever the time of day; it is 13 on the reference date.
C7_AnchoredDay ==
    pc \in {"fn_day", "fn_runtime"} =>
        /\ gday \in 0..(CYCLE_LENGTH_DAYS - 1)
        /\ (REFERENCE_GLOBAL_DAY + ElapsedDays(now) - gday)
              \in {k * CYCLE_LENGTH_DAYS : k \in -CalendarDays..CalendarDays}
        /\ DateOf(now) = <<2025, 12, 3>> => gday = 13

C7_Witness ==
    /\ pc = "fn_day"
    /\ DateOf(now) = <<2025, 12, 3>>
    /\ now[4] = 23
    /\ gday = 13

\* C8: compute_cage_runtime_for_global_day gives every cage the cage_day
\* (global_day - offset) mod 24, a value in 0..23; global day 4 gives cage 1
\* (offset 0) day 4, green, 4 blinks, and global day 13 gives cage 3
\* (offset 12) day 1, green.
C8_CageDay ==
    pc = "fn_runtime" =>
        /\ \A c \in Cages :
              LET d == cage_runtime[c].cage_day
                  diff == gday - CAGE_OFFSETS[c]
              IN  /\ d \in 0..23
                  /\ d = IF diff >= 0 THEN diff ELSE diff + 24
        /\ gday = 4 =>
              /\ cage_runtime[1].cage_day = 4
              /\ cage_runtime[1].color = "green"
              /\ cage_runtime[1].blinks = 4
        /\ gday = 13 =>
              /\ cage_runtime[3].cage_day = 1
              /\ cage_runtime[3].color = "green"

C8_Witness ==
    /\ pc = "fn_runtime"
    /\ gday = 4
    /\ cage_runtime[4].cage_day = 10

\* C9: every cage_day in 0..23 has exactly one color: green on 0..5, yellow
\* on 6..19, red on 20..23.
C9_ColorRanges ==
    pc = "fn_runtime" =>
        \A c \in Cages :
            LET d == cage_runtime[c].cage_day
                col == cage_runtime[c].color
            IN  /\ col \in Colors
                /\ col = "green" <=> d \in 0..5
                /\ col = "yellow" <=> d \in 6..19
                /\ col = "red" <=> d \in 20..23

C9_Witness ==
    /\ pc = "fn_runtime"
    /\ cage_runtime[1].cage_day = 19 /\ cage_runtime[1].color = "yellow"
    /\ cage_runtime[2].cage_day = 13

\* C10: a cage day has blink count 0 exactly when its color is red; a cage
\* of the running program has blinks = 0 exactly when it is red, and a red
\* cage stays in solid_only and set_cage_off is never called for it.
C10_RedIffNoBlink ==
    /\ \A d \in 0..(CYCLE_LENGTH_DAYS - 1) :
          blink_count_for_cage_day(d) = 0 <=> color_for_cage_day(d) = "red"
    /\ cage_runtime # NoRuntime =>
          \A c \in Cages :
              /\ cage_runtime[c].blinks = 0 <=> cage_runtime[c].color = "red"
              /\ cage_runtime[c].color = "red" =>
                    /\ cage_runtime[c].phase = "solid_only"
                    /\ ~(call.fn = "set_cage_off" /\ call.cage_num = c)
                    /\ (AllTicked /\ ticked[c] >= 1) => pins[c] = Showing("red")

C10_Witness ==
    /\ cage_runtime # NoRuntime
    /\ pc = "sleep"
    /\ \E c, o \in Cages :
          /\ cage_runtime[c].color = "red"
          /\ ticked[c] = 12
          /\ pins[c] = Showing("red")
          /\ pins[o] = AllOff

\* C11: a cage with blink count 0 is in solid_only with timer 0 and
\* blink_index 0 from its creation on, every tick calls set_cage_color with
\* its color for it, and after a completed iteration it shows that color.
C11_SolidOnly ==
    cage_runtime # NoRuntime =>
        \A c \in Cages :
            cage_runtime[c].blinks = 0 =>
                /\ cage_runtime[c].phase = "solid_only"
                /\ cage_runtime[c].timer = 0
                /\ cage_runtime[c].blink_index = 0
                /\ (call # NoCall /\ call.cage_num = c) =>
                      (call.fn = "set_cage_color" /\ call.color = cage_runtime[c].color)
                /\ (pc = "sleep") => pins[c] = Showing(cage_runtime[c].color)

C11_Witness ==
    /\ cage_runtime # NoRuntime
    /\ pc = "sleep"
    /\ \E c \in Cages :
          /\ cage_runtime[c].blinks = 0
          /\ ticked[c] = 12
          /\ cage_runtime[c].phase = "solid_only"

\* C12: the recomputation after a detected day change gives every cage
\* timer 0, blink_index 0 and the phase solid_only (blink count 0) or
\* solid_gap, whatever phase, timer and blink_index it had before.
C12_FullReset ==
    [][(pc = "compute" /\ pc' = "tick") =>
          \A c \in Cages :
              /\ cage_runtime'[c].timer = 0
              /\ cage_runtime'[c].blink_index = 0
              /\ cage_runtime'[c].phase =
                    IF cage_runtime'[c].blinks = 0 THEN "solid_only" ELSE "solid_gap"
              /\ ticked'[c] = 0]_vars

\* A day change caught in the middle of a burst, recomputed.
C12_Witness ==
    /\ pc = "tick"
    /\ cage_i = 1
    /\ call = NoCall
    /\ \A c \in Cages : ticked[c] = 0
    /\ \E c \in Cages : pins[c] = AllOff /\ cage_runtime[c].phase = "solid_gap"
    /\ \E c \in Cages : pins[c] # AllOff

Position(c) == CHOOSE i \in 1..Len(CageOrder) : CageOrder[i] = c

DayState(c) ==
    [color |-> cage_runtime[c].color, blinks |-> cage_runtime[c].blinks,
     cage_day |-> cage_runtime[c].cage_day]

\* C14: an iteration that reads the global day it already has, with a
\* runtime in place, goes on to the tick without recomputing, and no step
\* other than the recomputation changes a cage's color, blinks or cage_day.
C14_RecomputeOnlyOnChange ==
    [][/\ (pc = "check" /\ gday = last_global_day /\ cage_runtime # NoRuntime)
            => (pc' = "tick" /\ cage_runtime' = cage_runtime)
       /\ (pc # "compute" /\ cage_runtime # NoRuntime)
            => /\ cage_runtime' # NoRuntime
               /\ \A c \in Cages :
                     /\ cage_runtime'[c].color = cage_runtime[c].color
                     /\ cage_runtime'[c].blinks = cage_runtime[c].blinks
                     /\ cage_runtime'[c].cage_day = cage_runtime[c].cage_day]_vars

\* The eleventh tick of a day state, reached without a recomputation.
C14_Witness ==
    /\ pc = "sleep"
    /\ cage_runtime # NoRuntime
    /\ ticked[CageOrder[1]] = 11
    /\ cage_runtime[CageOrder[1]].phase = "blink_off"
    /\ DayState(CageOrder[1]) = [color |-> "yellow", blinks |-> 8, cage_day |-> 12]

ConfigInvalid == env.cycle <= 0 \/ env.cycle # Len(blink_table)

\* C15 as stated: with an invalid configuration the script stops at startup:
\* the main loop is never entered and no cage output is ever switched on.
C15_InvalidConfigRefused ==
    ConfigInvalid =>
        /\ pc = "startup"
        /\ \A c \in Cages : pins[c] = AllOff

\* C16: a step of apply_blink_logic_one_tick that processes one cage (its
\* helper call, each pin write of the helper, its state updates) leaves the
\* pins, the runtime state and the tick count of every other cage as they
\* were, and changes nothing of the processed cage's runtime but its phase,
\* timer and blink_index.
C16_CagesIndependent ==
    [][(pc \in {"tick", "update"}) =>
          LET cur == CageOrder[cage_i]
          IN  /\ \A o \in Cages \ {cur} :
                    /\ pins'[o] = pins[o]
                    /\ cage_runtime'[o] = cage_runtime[o]
                    /\ ticked'[o] = ticked[o]
              /\ cage_runtime'[cur].color = cage_runtime[cur].color
              /\ cage_runtime'[cur].blinks = cage_runtime[cur].blinks
              /\ cage_runtime'[cur].cage_day = cage_runtime[cur].cage_day]_vars

\* The second cage is being switched off, one pin written so far, in its
\* 24th tick while the first cage, with another blink count, stays lit.
C16_Witness ==
    /\ pc = "update"
    /\ call = [fn |-> "set_cage_off", cage_num |-> CageOrder[2], color |-> "none"]
    /\ pin_i = 2
    /\ ticked[CageOrder[1]] = 24
    /\ ticked[CageOrder[2]] = 23
    /\ cage_runtime[CageOrder[1]].blinks # cage_runtime[CageOrder[2]].blinks
    /\ pins[CageOrder[1]] = Showing(cage_runtime[CageOrder[1]].color)

CagesOfColor(color) == {c \in Cages : cage_runtime[c].color = color}

\* C17: on every global day exactly one cage is green, cage k exactly on the
\* global days 6(k-1)..6(k-1)+5, at most one cage is red, and every other
\* cage is yellow.
C17_OneGreenAtMostOneRed ==
    pc = "fn_runtime" =>
        /\ gday \in 0..(CYCLE_LENGTH_DAYS - 1)
        /\ Cardinality(CagesOfColor("green")) = 1
        /\ \A k \in Cages :
              cage_runtime[k].color = "green" <=> gday \in (6 * (k - 1))..(6 * (k - 1) + 5)
        /\ Cardinality(CagesOfColor("red")) <= 1
        /\ Cages = CagesOfColor("green") \cup CagesOfColor("red") \cup CagesOfColor("yellow")

\* Global day 14: cage 3 green, cage 4 red, cages 1 and 2 yellow.
C17_Witness ==
    /\ pc = "fn_runtime"
    /\ gday = 14
    /\ CagesOfColor("green") = {3}
    /\ CagesOfColor("red") = {4}
    /\ CagesOfColor("yellow") = {1, 2}

\* C18: at every tick boundary of every cage, phase is solid_only exactly
\* when blinks = 0; in solid_gap the timer is in 0..9 and blink_index is 0;
\* in blink_on and blink_off the timer is 0 and blink_index is in
\* 0..blinks-1; in solid_only timer and blink_index are 0.
C18_PhaseBounds ==
    cage_runtime # NoRuntime =>
        \A c \in Cages :
            LET s == cage_runtime[c]
            IN  /\ s.phase \in {"solid_only", "solid_gap", "blink_on", "blink_off"}
                /\ s.phase = "solid_only" <=> s.blinks = 0
                /\ s.phase = "solid_gap" => (s.timer \in 0..9 /\ s.blink_index = 0)
                /\ s.phase \in {"blink_on", "blink_off"} =>
                      (s.timer = 0 /\ s.blink_index \in 0..(s.blinks - 1))
                /\ s.phase = "solid_only" => (s.timer = 0 /\ s.blink_index = 0)

\* The last gap of a burst of eight, beside a cage that does not blink.
C18_Witness ==
    /\ cage_runtime # NoRuntime
    /\ pc = "sleep"
    /\ \E c, d \in Cages :
          /\ cage_runtime[c].blinks = 8
          /\ cage_runtime[c].phase = "blink_off"
          /\ cage_runtime[c].blink_index = 7
          /\ ticked[c] = 25
          /\ cage_runtime[d].phase = "solid_only"
          /\ ticked[d] = 25

\* C19 as stated: at the start of every loop iteration, also after a failed
\* one, a runtime that is in place is the day state of last_global_day: for
\* every cage, cage_day = (last_global_day - offset) mod 24 with the color
\* and the blink count of that cage_day.
C19_RuntimeMatchesLastDay ==
    (pc = "loop" /\ cage_runtime # NoRuntime) =>
        \A c \in Cages :
            LET d == PyMod(last_global_day - CAGE_OFFSETS[c], CYCLE_LENGTH_DAYS)
            IN  DayState(c) = [color |-> color_for_cage_day(d),
                               blinks |-> blink_count_for_cage_day(d),
                               cage_day |-> d]

\* C20: in a run without failures, a tick of a cage that was dark when the
\* tick began (it emitted off in the tick before, on the same day or on the
\* day that has just ended) ends with the cage showing its current color: no
\* two consecutive ticks are off, and the iteration that recomputes the day
\* state lights a cage that the day change found dark.
C20_OffThenColor ==
    [][(failures = 0 /\ pc = "update" /\ call # NoCall /\ call' = NoCall
            /\ pc' = "update" /\ entry_pins = AllOff)
          => pins'[call.cage_num] = Showing(cage_runtime[call.cage_num].color)]_vars

\* The day changed while cages 1 to 3 were dark after their twelfth tick on
\* global day 14: the first tick of the new day state is lighting cage 1,
\* and cage 4 still shows the red of the day before.
C20_Witness ==
    /\ failures = 0
    /\ pc = "update"
    /\ call = [fn |-> "set_cage_color", cage_num |-> CageOrder[1],
               color |-> cage_runtime[CageOrder[1]].color]
    /\ pin_i = Len(PinOrder) + 1
    /\ entry_pins = AllOff
    /\ \A c \in Cages : ticked[c] = 0
    /\ pins[CageOrder[2]] = AllOff
    /\ pins[4] = Showing("red")
    /\ cage_runtime[4].color = "yellow"

====
